---- MODULE Spec2Model ----
(***************************************************************************)
(* A model of s3-site-cache-optimizer (src/s3_site_cache_optimizer/        *)
(* optimize.py): the Optimizer's indexing of the source directory, the     *)
(* fingerprinting and reference rewriting of the staging writer, the gzip  *)
(* stage and the synchronization of the output directory with the bucket.  *)
(*                                                                         *)
(* Four specifications share the module, one per part of the pipeline:     *)
(*   Spec        runs of Optimizer.run() against one bucket (the           *)
(*               synchronizer, _upload_to_bucket, step by step);           *)
(*   SpecRewrite _rewrite_file on one line of text;                        *)
(*   SpecStage   _calculate_fingerprints and _write_files;                 *)
(*   SpecIndex   _index_source_dir.                                        *)
(* Each leaves the variables of the other parts at their initial values.   *)
(***************************************************************************)
EXTENDS Integers, Sequences, FiniteSets, TLC

VARIABLES
    source,              \* the source directory: file -> content id, 0 = absent
    output_dir,          \* the output directory: a set of [path, bytes]
    output_dir_is_temp,  \* Optimizer._output_dir_is_temp (no -o option given)
    prefix,              \* Optimizer._prefix, NoPrefix for None
    gzip,                \* Optimizer._gzip of the current run
    remote,              \* the bucket: a set of [key, bytes, headers]
    pc,                  \* where the current run stands
    walk,                \* files of output_dir that os.walk has yet to yield
    to_be_deleted,       \* the local list to_be_deleted of _upload_to_bucket
    runs,                \* number of runs started
    hist                 \* what the current run did, and how the last one ended

syncVars == << source, output_dir, output_dir_is_temp, prefix, gzip, remote, pc,
               walk, to_be_deleted, runs, hist >>

VARIABLES
    rw_src,      \* the line as read from the source file
    rw_line,     \* the local variable line of _rewrite_file
    rw_todo,     \* keys of _assets_map the loop of line 232 has yet to yield
    rw_reldir,   \* src_reldirpath, the directory of the file being rewritten
    rw_domains,  \* Optimizer._domains
    rw_out       \* what was written to the destination, << >> before

rwVars == << rw_src, rw_line, rw_todo, rw_reldir, rw_domains, rw_out >>

VARIABLES
    st_source,   \* the source directory: file -> its text, a sequence of tokens
    assets_map,  \* Optimizer._assets_map: asset -> [basename, new_filename]
    st_output,   \* the output directory: a set of [path, bytes]
    st_phase,    \* the loop of _calculate_fingerprints / _write_files being run
    st_todo,     \* files the current loop has yet to yield
    st_log       \* the assignments made to new_filename, and the rewrites done

stVars == << st_source, assets_map, st_output, st_phase, st_todo, st_log >>

VARIABLES
    ix_tree,     \* the source tree: [dirs, files], sets of relative paths
    exclude,     \* Optimizer._exclude, the patterns
    ix_walk,     \* directories os.walk has yet to yield
    subdirs,     \* Optimizer._subdirs
    files,       \* Optimizer._files
    ix_assets,   \* the keys of Optimizer._assets_map
    rewritables  \* Optimizer._rewritables

ixVars == << ix_tree, exclude, ix_walk, subdirs, files, ix_assets, rewritables >>

vars == << syncVars, rwVars, stVars, ixVars >>

(***************************************************************************)
(* Paths.  A relative file path is a record                                *)
(*   [dir  : the directory components, a sequence of strings,              *)
(*    stem : the file name up to its extension, a sequence of characters,  *)
(*    fp   : the fingerprint inserted before the extension, NoFp if none,  *)
(*    ext  : the extension, with its dot]                                  *)
(* which stands for the string dir/stem[.fp]ext.                           *)
(***************************************************************************)
NoFp == << >>

Path(dir, stem, ext) == [dir |-> dir, stem |-> stem, fp |-> NoFp, ext |-> ext]

\* optimize.py:111-114, the extension lists of Optimizer.__init__
assets_ext ==
    {".css", ".svg", ".ttf", ".woff", ".woff2", ".otf", ".eot", ".png",
     ".jpg", ".jpeg", ".gif", ".js", ".mp4", ".webm", ".webp"}

rewriteables_ext == {".html", ".htm", ".js", ".css", ".xml", ".json"}

gzip_ext == {".html", ".htm", ".css", ".js", ".svg", ".xml", ".json"}

\* calculate_fingerprint: the sha256 digest of the bytes.  The digest is taken
\* to be collision free and is written as the tuple holding its preimage.
calculate_fingerprint(bytes) == << bytes >>

\* convert_filename: splitext(filename)[0] + '.' + filehash + splitext(filename)[1]
convert_filename(filename, filehash) == [filename EXCEPT !.fp = filehash]

IsPrefixSeq(p, s) == Len(p) <= Len(s) /\ SubSeq(s, 1, Len(p)) = p

IsSuffixSeq(p, s) == Len(p) <= Len(s) /\ SubSeq(s, Len(s) - Len(p) + 1, Len(s)) = p

(***************************************************************************)
(* The synchronizer: runs of Optimizer.run() against one bucket.           *)
(***************************************************************************)
MaxRuns == 2

Contents == {1, 2}

SrcPng == Path(<< >>, << "a" >>, ".png")
SrcCss == Path(<< >>, << "s" >>, ".css")
SrcHtml == Path(<< >>, << "i" >>, ".html")

SyncFiles == {SrcPng, SrcCss, SrcHtml}

\* The source trees of the runs: the empty tree, and the trees that hold the
\* image in one of two versions and each of the other files or not.
Sources ==
    {s \in [SyncFiles -> {0} \cup Contents] :
        /\ s[SrcCss] # 2
        /\ s[SrcHtml] # 2
        /\ s[SrcPng] = 0 => (s[SrcCss] = 0 /\ s[SrcHtml] = 0)}

\* File bytes: the content and the number of gzip encodings applied to it.
Bytes(c) == [c |-> c, gz |-> 0]

NoPrefix == << >>

Prefixes == {NoPrefix, << "P" >>}

\* Objects that are in the bucket before the first run.
OldTxt == Path(<< >>, << "o", "l", "d" >>, ".txt")

ForeignKeys ==
    {[ns |-> << >>, path |-> OldTxt],
     [ns |-> << "P", "/" >>, path |-> OldTxt],
     [ns |-> << "P", "o", "/" >>, path |-> OldTxt],
     [ns |-> << "o", "/" >>, path |-> OldTxt]}

NoHeaders == [cache |-> "", enc |-> ""]

ForeignObject(k) == [key |-> k, bytes |-> Bytes(1), headers |-> NoHeaders]

RemoteKeys(r) == {o.key : o \in r}

KeyChars(k) == k.ns \o k.path.stem

\* bucket.list(prefix=...): the keys that begin with the prefix; all for None
ListKeys(r, p) == {k \in RemoteKeys(r) : IsPrefixSeq(p, KeyChars(k))}

\* optimize.py:370-371: os.path.join(self._prefix, relpath) when a prefix is set
KeyOf(p, path) ==
    [ns |-> IF p # NoPrefix THEN p \o << "/" >> ELSE << >>, path |-> path]

StagedKeys(dir, p) == {KeyOf(p, e.path) : e \in dir}

\* Writing a file replaces what the directory held at that path.
WriteAll(dir, new) == {e \in dir : \A n \in new : n.path # e.path} \cup new

\* _calculate_fingerprints and _write_files on files whose text holds no
\* reference to an asset: rewriting leaves the bytes as they are, an asset is
\* written under its fingerprinted name and any other file under its own.
write_files(dir, src) ==
    LET present == {f \in DOMAIN src : src[f] # 0}
        dst(f) == IF f.ext \in assets_ext
                  THEN convert_filename(f, calculate_fingerprint(Bytes(src[f])))
                  ELSE f
    IN  WriteAll(dir, {[path |-> dst(f), bytes |-> Bytes(src[f])] : f \in present})

\* _gzip_files: every file of the output directory with a gzip extension is
\* replaced by its compression.
gzip_files(dir) ==
    {IF e.path.ext \in gzip_ext THEN [e EXCEPT !.bytes.gz = @ + 1] ELSE e : e \in dir}

\* A synchronizer that forgets to take the staged key off the deletion list.
RemoveKept_Mutant(tbd, key) == tbd

\* optimize.py:374-377: to_be_deleted.remove(relpath), ignoring its absence
RemoveKept(tbd, key) == tbd \ {key}

\* A synchronizer that uploads every staged file.
ShouldUpload_Mutant(present, is_asset) == TRUE

\* optimize.py:385: k is None or not is_asset
ShouldUpload(present, is_asset) == (~present) \/ (~is_asset)

\* optimize.py:392-401
HeadersFor(is_asset, is_gzipped) ==
    [cache |-> IF is_asset THEN "public, max-age=31556926" ELSE "no-cache, max-age=0",
     enc |-> IF is_gzipped THEN "gzip" ELSE ""]

Put(r, obj) == {o \in r : o.key # obj.key} \cup {obj}

NoHist ==
    [listed |-> {}, uploaded |-> {}, skipped |-> {}, deleted |-> {},
     remote0 |-> {}, errors |-> 0, calls |-> 0, unchanged |-> FALSE,
     afterAbort |-> FALSE, afterPartial |-> FALSE, clean |-> TRUE, last |-> [outcome |-> "none", source |-> << >>, gzip |-> FALSE]]

InitSync ==
    /\ source \in Sources
    /\ output_dir = {}
    /\ output_dir_is_temp \in BOOLEAN
    /\ prefix \in Prefixes
    /\ gzip = FALSE
    /\ remote = {ForeignObject(k) : k \in ForeignKeys}
    /\ pc = "idle"
    /\ walk = {}
    /\ to_be_deleted = {}
    /\ runs = 0
    /\ hist = NoHist

\* The site is rebuilt between two runs.
ChangeSource ==
    /\ pc \in {"done", "failed"}
    /\ runs < MaxRuns
    /\ \E s \in Sources : s # source /\ source' = s
    /\ UNCHANGED << output_dir, output_dir_is_temp, prefix, gzip, remote, pc,
                    walk, to_be_deleted, runs, hist >>
    /\ UNCHANGED << rwVars, stVars, ixVars >>

\* Optimizer(...).run() up to the call of _upload_to_bucket: __init__ (a
\* temporary output directory is a fresh one), _index_source_dir,
\* _calculate_fingerprints, _write_dirs, _write_files and, with --gzip,
\* _gzip_files.
StartRun ==
    /\ pc \in {"idle", "done", "failed"}
    /\ runs < MaxRuns
    /\ \E gz \in BOOLEAN :
        LET dir0 == IF output_dir_is_temp THEN {} ELSE output_dir
            written == write_files(dir0, source)
            same == hist.last.source = source /\ hist.last.gzip = gz
        IN  /\ gzip' = gz
            /\ output_dir' = IF gz THEN gzip_files(written) ELSE written
            /\ hist' = [NoHist EXCEPT !.remote0 = remote,
                                      !.unchanged = same /\ pc = "done",
                                      !.clean = hist.clean /\ pc # "failed",
                                      !.afterAbort = same /\ pc = "failed",
                                      !.afterPartial = same /\ pc = "failed"
                                                       /\ hist.uploaded # {},
                                      !.last = [outcome |-> "running", source |-> source,
                                                gzip |-> gz]]
    /\ pc' = "listing"
    /\ walk' = {}
    /\ to_be_deleted' = {}
    /\ runs' = runs + 1
    /\ UNCHANGED << source, output_dir_is_temp, prefix, remote >>
    /\ UNCHANGED << rwVars, stVars, ixVars >>

\* A synchronizer that swallows the boto error and goes on.
RaiseOptimizerError_Mutant ==
    /\ pc' = pc
    /\ walk' = walk
    /\ to_be_deleted' = to_be_deleted
    /\ hist' = [hist EXCEPT !.errors = @ + 1, !.calls = @ + 1]

\* optimize.py:413-414: a boto error ends _upload_to_bucket with one OptimizerError;
\* the locals of the call are gone with it.
RaiseOptimizerError ==
    /\ pc' = "failed"
    /\ walk' = {}
    /\ to_be_deleted' = {}
    /\ hist' = [hist EXCEPT !.errors = @ + 1, !.calls = @ + 1, !.last.outcome = "failed"]

\* optimize.py:362
ListBucket ==
    /\ pc = "listing"
    /\ to_be_deleted' = ListKeys(remote, prefix)
    /\ walk' = output_dir
    /\ pc' = "walking"
    /\ hist' = [hist EXCEPT !.listed = ListKeys(remote, prefix), !.calls = @ + 1]
    /\ UNCHANGED << source, output_dir, output_dir_is_temp, prefix, gzip, remote, runs >>
    /\ UNCHANGED << rwVars, stVars, ixVars >>

ListBucketFails ==
    /\ pc = "listing"
    /\ RaiseOptimizerError
    /\ UNCHANGED << source, output_dir, output_dir_is_temp, prefix, gzip, remote, runs >>
    /\ UNCHANGED << rwVars, stVars, ixVars >>

\* optimize.py:366-405, one file of the walk: get_key, then the upload unless
\* the file is an asset whose key exists.
UploadFile ==
    /\ pc = "walking"
    /\ \E e \in walk :
        LET relpath == KeyOf(prefix, e.path)
            is_asset == e.path.ext \in assets_ext
            is_gzipped == gzip /\ e.path.ext \in gzip_ext
            present == relpath \in RemoteKeys(remote)
            obj == [key |-> relpath, bytes |-> e.bytes,
                    headers |-> HeadersFor(is_asset, is_gzipped)]
        IN  /\ walk' = walk \ {e}
            /\ to_be_deleted' = RemoveKept(to_be_deleted, relpath)
            /\ IF ShouldUpload(present, is_asset)
               THEN /\ remote' = Put(remote, obj)
                    /\ hist' = [hist EXCEPT !.uploaded = @ \cup {relpath}, !.calls = @ + 2]
               ELSE /\ remote' = remote
                    /\ hist' = [hist EXCEPT !.skipped = @ \cup {relpath}, !.calls = @ + 1]
    /\ UNCHANGED << source, output_dir, output_dir_is_temp, prefix, gzip, pc, runs >>
    /\ UNCHANGED << rwVars, stVars, ixVars >>

\* get_key raises
GetKeyFails ==
    /\ pc = "walking"
    /\ walk # {}
    /\ RaiseOptimizerError
    /\ UNCHANGED << source, output_dir, output_dir_is_temp, prefix, gzip, remote, runs >>
    /\ UNCHANGED << rwVars, stVars, ixVars >>

\* set_contents_from_filename raises: nothing is stored
PutFails ==
    /\ pc = "walking"
    /\ \E e \in walk :
        ShouldUpload(KeyOf(prefix, e.path) \in RemoteKeys(remote), e.path.ext \in assets_ext)
    /\ RaiseOptimizerError
    /\ UNCHANGED << source, output_dir, output_dir_is_temp, prefix, gzip, remote, runs >>
    /\ UNCHANGED << rwVars, stVars, ixVars >>

\* optimize.py:408-411: the bulk delete once the walk is over
DeleteKeys ==
    /\ pc = "walking"
    /\ walk = {}
    /\ remote' = {o \in remote : o.key \notin to_be_deleted}
    /\ pc' = "done"
    /\ to_be_deleted' = {}
    /\ hist' = [hist EXCEPT !.deleted = to_be_deleted, !.calls = @ + 1,
                            !.last.outcome = "done"]
    /\ UNCHANGED << source, output_dir, output_dir_is_temp, prefix, gzip, walk, runs >>
    /\ UNCHANGED << rwVars, stVars, ixVars >>

\* delete_keys raises: the request is refused as a whole
DeleteKeysFails ==
    /\ pc = "walking"
    /\ walk = {}
    /\ RaiseOptimizerError
    /\ UNCHANGED << source, output_dir, output_dir_is_temp, prefix, gzip, remote, runs >>
    /\ UNCHANGED << rwVars, stVars, ixVars >>

NextSync ==
    \/ ChangeSource
    \/ StartRun
    \/ ListBucket
    \/ ListBucketFails
    \/ UploadFile
    \/ GetKeyFails
    \/ PutFails
    \/ DeleteKeys
    \/ DeleteKeysFails

(***************************************************************************)
(* Claims on the synchronizer.                                             *)
(***************************************************************************)
Staged == StagedKeys(output_dir, prefix)

\* C1: when a synchronization has succeeded, the keys it deleted are exactly
\* the listed keys that are not staged, and the keys of the bucket under the
\* prefix are exactly the staged keys; as long as files are being uploaded no
\* key has been deleted.
C1_SyncExact ==
    /\ pc = "walking" =>
          /\ hist.deleted = {}
          /\ RemoteKeys(hist.remote0) \subseteq RemoteKeys(remote)
    /\ pc = "done" =>
          /\ hist.deleted = hist.listed \ Staged
          /\ ListKeys(remote, prefix) = Staged
          /\ hist.uploaded \cup hist.skipped = Staged

C1_Witness ==
    /\ pc = "done"
    /\ hist.deleted # {}
    /\ hist.uploaded # {}
    /\ hist.skipped # {}
    /\ hist.listed \cap Staged # {}

SkippedEncoding(k) == IF gzip /\ k.path.ext \in gzip_ext THEN "gzip" ELSE ""

\* C2: an upload is skipped only for an asset, and the object found at a
\* skipped key has the bytes and the content encoding of the staged file of
\* this run; every other staged key has been uploaded when the run is done.
C2_SkippedIsSameContent ==
    /\ \A k \in hist.skipped :
          /\ k.path.ext \in assets_ext
          /\ \E o \in remote : \E e \in output_dir :
                /\ o.key = k
                /\ KeyOf(prefix, e.path) = k
                /\ o.bytes = e.bytes
                /\ o.headers.enc = SkippedEncoding(k)
    /\ pc = "done" => hist.uploaded = Staged \ hist.skipped

\* The keys that the source tree of the run produces.
BuildKeys == StagedKeys(write_files({}, hist.last.source), prefix)

\* C3: after a sequence of successful runs the staged tree and the bucket
\* under the prefix hold exactly the keys produced from the source files of
\* the latest run.
C3_OnlyLatestBuild ==
    (pc = "done" /\ hist.clean) => (Staged = BuildKeys /\ ListKeys(remote, prefix) = BuildKeys)

\* C4: a run that repeats a successful run with the same source and options
\* uploads no asset and deletes no key; when it is done it has uploaded
\* exactly the staged files that are not assets.
C4_RepeatedRun ==
    hist.unchanged =>
        /\ \A k \in hist.uploaded : k.path.ext \notin assets_ext
        /\ hist.deleted = {}
        /\ pc = "done" =>
              /\ hist.uploaded = {k \in Staged : k.path.ext \notin assets_ext}
              /\ hist.skipped = {k \in Staged : k.path.ext \in assets_ext}

C4_Witness ==
    /\ pc = "done"
    /\ hist.unchanged
    /\ hist.skipped # {}
    /\ hist.uploaded # {}

\* The bucket of a run that has uploaded the keys in up and deleted nothing.
OnlyUploads(r0, r, up) ==
    /\ RemoteKeys(r) = RemoteKeys(r0) \cup up
    /\ \A o \in r0 : o.key \notin up => o \in r

\* C5: a remote error ends the synchronization at once with one
\* OptimizerError: the bucket then holds what it held before the run and the
\* uploads made so far, nothing has been deleted, and no remote call follows;
\* the run that next succeeds from the same source leaves the keys under the
\* prefix equal to the staged keys.
C5_AbortState ==
    /\ hist.errors <= 1
    /\ (hist.errors = 1) <=> (pc = "failed")
    /\ pc = "failed" =>
          /\ hist.deleted = {}
          /\ OnlyUploads(hist.remote0, remote, hist.uploaded)
    /\ (hist.afterAbort /\ pc = "done") => ListKeys(remote, prefix) = Staged

C5_FailFast ==
    []C5_AbortState
    /\ [][pc = "failed" =>
            /\ remote' = remote
            /\ pc' = "failed" => hist'.calls = hist.calls]_syncVars

C5_Witness ==
    /\ pc = "done"
    /\ hist.afterPartial
    /\ hist.skipped # {}
    /\ hist.deleted # {}

EncodingLayers(headers) == IF headers.enc = "gzip" THEN 1 ELSE 0

\* The header rule of the upload alone.
HeaderRule ==
    \A o \in remote : o.key \in hist.uploaded =>
        /\ o.headers.cache = IF o.key.path.ext \in assets_ext
                             THEN "public, max-age=31556926"
                             ELSE "no-cache, max-age=0"
        /\ (o.headers.enc = "gzip") <=> (gzip /\ o.key.path.ext \in gzip_ext)

\* C6: every object uploaded in this run carries the cache directive of its
\* class, carries Content-Encoding gzip exactly when the run compresses and
\* the extension is compressible, and its bytes are encoded as its headers
\* say.
C6_HeadersAgree ==
    /\ HeaderRule
    /\ \A o \in remote : o.key \in hist.uploaded =>
          o.bytes.gz = EncodingLayers(o.headers)

\* The namespace of a prefix: the prefix joined with the path separator.
InNamespace(k) == k.ns = prefix \o << "/" >>

Touched == hist.uploaded \cup hist.deleted

\* With a prefix, every key a run uploads lies in the namespace of the prefix,
\* and every key it deletes was listed, so begins with the characters of the
\* prefix.
TouchedBeginWithPrefix ==
    prefix # NoPrefix =>
        /\ \A k \in hist.uploaded : InNamespace(k)
        /\ \A k \in hist.deleted : IsPrefixSeq(prefix, KeyChars(k))

\* C11: with a prefix configured, every object the bucket held outside the
\* namespace of the prefix when the run started is still there unchanged, and
\* every key the run has uploaded or deleted lies in that namespace; a key of
\* a sibling namespace that only begins with the characters of the prefix is
\* neither deleted nor overwritten.
C11_PrefixFrame ==
    prefix # NoPrefix =>
        /\ \A o \in hist.remote0 : ~InNamespace(o.key) => o \in remote
        /\ \A k \in Touched : InNamespace(k)

(***************************************************************************)
(* The reference rewriter: _rewrite_file on one line of text.              *)
(*                                                                         *)
(* A line is the sequence of its runs of URL characters (the tokens the    *)
(* regular expression can match); the text between them never changes.  A  *)
(* token is what urlparse makes of it: [netloc, path], the path being the  *)
(* sequence of its components (the path string split at "/"), so that a    *)
(* leading empty component stands for a leading slash.  A component is a   *)
(* record [stem, fp, ext] like the file name of a path.                    *)
(***************************************************************************)
Seg(stem, ext) == [stem |-> stem, fp |-> NoFp, ext |-> ext]

EmptySeg == Seg(<< >>, "")

DotSeg == Seg(<< "." >>, "")

DotDotSeg == Seg(<< ".." >>, "")

DirSeg(d) == Seg(<< d >>, "")

\* os.path.basename of a relative path
basename(p) == [stem |-> p.stem, fp |-> p.fp, ext |-> p.ext]

\* the components of a relative path
PathSegs(p) == [i \in 1..Len(p.dir) |-> DirSeg(p.dir[i])] \o << basename(p) >>

\* os.path.join(a, b): b alone when it is absolute, a/b otherwise
join(a, b) == IF b # << >> /\ Head(b) = EmptySeg THEN b ELSE a \o b

RECURSIVE NormComps(_, _, _)
\* the loop of posixpath.normpath over the components of the path
NormComps(comps, new_comps, initial_slashes) ==
    IF comps = << >> THEN new_comps
    ELSE LET comp == Head(comps)
             n == Len(new_comps)
         IN  IF comp \in {EmptySeg, DotSeg}
             THEN NormComps(Tail(comps), new_comps, initial_slashes)
             ELSE IF \/ comp # DotDotSeg
                     \/ (~initial_slashes /\ n = 0)
                     \/ (n > 0 /\ new_comps[n] = DotDotSeg)
             THEN NormComps(Tail(comps), Append(new_comps, comp), initial_slashes)
             ELSE NormComps(Tail(comps),
                            IF n > 0 THEN SubSeq(new_comps, 1, n - 1) ELSE new_comps,
                            initial_slashes)

\* os.path.normpath(path).lstrip('/'): the components of the normalized path
\* without its leading slash ('.' for an empty relative path)
normpath_lstrip(path) ==
    LET initial_slashes == path # << >> /\ Head(path) = EmptySeg
        comps == NormComps(path, << >>, initial_slashes)
    IN  IF comps = << >> /\ ~initial_slashes THEN << DotSeg >> ELSE comps

\* optimize.py:249-250
normalized_relative_path(reldir, token) == normpath_lstrip(join(reldir, token.path))

\* the basename occurs in the component: the same extension after a stem that
\* ends with the basename's stem
SegContains(seg, base) ==
    /\ seg.fp = NoFp
    /\ seg.ext = base.ext
    /\ IsSuffixSeq(base.stem, seg.stem)

\* optimize.py:233-239: the regular expression finds the token for the basename
IsCandidate(token, base) == \E i \in DOMAIN token.path : SegContains(token.path[i], base)

\* A rewriter that rewrites the urls of every host.
IsThirdParty_Mutant(netloc, domains) == FALSE

\* optimize.py:243-244
IsThirdParty(netloc, domains) == netloc # "" /\ netloc \notin domains

\* optimize.py:253-259: '/' + join(dirname(normalized), basename(new_filename)),
\* joined to the url when it has a host
NewPath(token, normalized, new_filename) ==
    [netloc |-> token.netloc,
     path |-> << EmptySeg >> \o SubSeq(normalized, 1, Len(normalized) - 1)
                \o << basename(new_filename) >>]

\* optimize.py:241-263, one match of the regular expression
RewriteToken(token, asset, map, reldir, domains) ==
    IF ~IsCandidate(token, map[asset].basename) THEN token
    ELSE IF IsThirdParty(token.netloc, domains) THEN token
    ELSE IF PathSegs(asset) = normalized_relative_path(reldir, token)
         THEN NewPath(token, normalized_relative_path(reldir, token),
                      map[asset].new_filename)
         ELSE token

\* optimize.py:233-263, the body of the loop over the assets for one asset
RewriteForAsset(line, asset, map, reldir, domains) ==
    [i \in DOMAIN line |-> RewriteToken(line[i], asset, map, reldir, domains)]

RECURSIVE RewriteLine(_, _, _, _, _)
\* optimize.py:232-263, the loop over the assets in the order the dict yields them
RewriteLine(line, todo, map, reldir, domains) ==
    IF todo = {} THEN line
    ELSE LET asset == CHOOSE a \in todo : TRUE
         IN  RewriteLine(RewriteForAsset(line, asset, map, reldir, domains),
                         todo \ {asset}, map, reldir, domains)

MaxLineLen == 2

Tok(netloc, path) == [netloc |-> netloc, path |-> path]

APng == Seg(<< "a" >>, ".png")
BaPng == Seg(<< "b", "a" >>, ".png")

\* the tokens the lines are made of
RwTokens ==
    {Tok("", << APng >>),                                       \* a.png
     Tok("", << EmptySeg, APng >>),                             \* /a.png
     Tok("", << DirSeg("x"), APng >>),                          \* x/a.png
     Tok("", << DotDotSeg, APng >>),                            \* ../a.png
     Tok("", << DotSeg, DirSeg("x"), DotDotSeg, APng >>),       \* ./x/../a.png
     Tok("", << DirSeg("y"), APng >>),                          \* y/a.png
     Tok("", << BaPng >>),                                      \* ba.png
     Tok("site", << EmptySeg, APng >>),                         \* //site/a.png
     Tok("cdn", << EmptySeg, APng >>),                          \* //cdn/a.png
     Tok("cdn", << EmptySeg, DirSeg("x"), APng >>)}             \* //cdn/x/a.png

RwLines == UNION {[1..n -> RwTokens] : n \in 0..MaxLineLen}

\* _assets_map of the rewriter's source tree: a.png, x/a.png and ba.png
RwAssets ==
    {Path(<< >>, << "a" >>, ".png"), Path(<< "x" >>, << "a" >>, ".png"),
     Path(<< >>, << "b", "a" >>, ".png")}

\* the text held by a file that is not rewritten
Text(s) == << Tok("", << Seg(<< s >>, "") >>) >>

RwMap ==
    [a \in RwAssets |->
        [basename |-> basename(a),
         new_filename |-> convert_filename(a, calculate_fingerprint(Text("image")))]]

InitRewrite ==
    /\ rw_src \in RwLines
    /\ rw_line = rw_src
    /\ rw_todo = RwAssets
    /\ rw_reldir \in {<< >>, << DirSeg("x") >>}
    /\ rw_domains \in SUBSET {"site", "cdn"}
    /\ rw_out = << >>

\* optimize.py:232-263: the next asset of the loop over _assets_map.keys()
RewriteAsset ==
    /\ rw_todo # {}
    /\ \E asset \in rw_todo :
        /\ rw_line' = RewriteForAsset(rw_line, asset, RwMap, rw_reldir, rw_domains)
        /\ rw_todo' = rw_todo \ {asset}
    /\ UNCHANGED << rw_src, rw_reldir, rw_domains, rw_out >>
    /\ UNCHANGED << syncVars, stVars, ixVars >>

\* optimize.py:265
WriteLine ==
    /\ rw_todo = {}
    /\ rw_out = << >>
    /\ rw_out' = << rw_line >>
    /\ UNCHANGED << rw_src, rw_line, rw_todo, rw_reldir, rw_domains >>
    /\ UNCHANGED << syncVars, stVars, ixVars >>

NextRewrite == RewriteAsset \/ WriteLine

(***************************************************************************)
(* Claims on the rewriter.                                                 *)
(***************************************************************************)
\* the token names the asset: no host or an allowed host, and a path that,
\* normalized against the directory of the file, is the asset's path
Resolves(token, asset) ==
    /\ (token.netloc = "" \/ token.netloc \in rw_domains)
    /\ normalized_relative_path(rw_reldir, token) = PathSegs(asset)

RwProcessed == RwAssets \ rw_todo

\* C7: a token of the line has been replaced exactly when it is a candidate
\* for an asset that the loop has handled and names that asset (no host or an
\* allowed host, and its normalized path is the asset's path); it then keeps
\* its host and ends with the asset's fingerprinted name.  Every other token,
\* one with a host that is not allowed or one that resolves to another file,
\* is as it was read, and the line written is the line so rewritten.
C7_RewriteIff ==
    /\ DOMAIN rw_line = DOMAIN rw_src
    /\ \A i \in DOMAIN rw_src :
          LET hit == {a \in RwProcessed :
                        IsCandidate(rw_src[i], basename(a)) /\ Resolves(rw_src[i], a)}
          IN  /\ (rw_line[i] # rw_src[i]) <=> (hit # {})
              /\ \A a \in hit :
                    /\ rw_line[i].netloc = rw_src[i].netloc
                    /\ rw_line[i].path[Len(rw_line[i].path)]
                         = basename(RwMap[a].new_filename)
    /\ rw_out # << >> => rw_out = << rw_line >>

C7_Witness ==
    /\ rw_out # << >>
    /\ \E i, j \in DOMAIN rw_src :
          /\ rw_out[1][i] # rw_src[i]
          /\ rw_src[i].netloc = "site"
          /\ rw_src[j].netloc = "cdn"
          /\ rw_out[1][j] = rw_src[j]
          /\ normalized_relative_path(rw_reldir, rw_src[j]) \in {PathSegs(a) : a \in RwAssets}

C7_WitnessOtherFile ==
    /\ rw_out # << >>
    /\ \E i, j \in DOMAIN rw_src :
          /\ rw_out[1][i] # rw_src[i]
          /\ rw_out[1][j] = rw_src[j]
          /\ rw_src[j].netloc = ""
          /\ IsCandidate(rw_src[j], APng)

(***************************************************************************)
(* The staging writer: _calculate_fingerprints and _write_files on a       *)
(* source directory whose files are all at its root.  The text of a file   *)
(* is one line, a sequence of tokens.                                      *)
(***************************************************************************)
StA == Path(<< >>, << "a" >>, ".css")
StB == Path(<< >>, << "b" >>, ".css")
StC == Path(<< >>, << "c" >>, ".png")
StI == Path(<< >>, << "i" >>, ".html")
StR == Path(<< >>, << "r" >>, ".txt")

\* Optimizer._files after _index_source_dir
StFiles == {StA, StB, StC, StI, StR}

\* Optimizer._assets_map.keys() and Optimizer._rewritables
StAssets == {f \in StFiles : f.ext \in assets_ext}

StRewritables == {f \in StFiles : f.ext \in rewriteables_ext}

\* a relative reference to a file of the root, as written in a file of the root
Ref(f) == Tok("", << Seg(f.stem, f.ext) >>)

\* the text of a file: some text of its own and a reference to each file of refs
TextWith(own, refs) ==
    Text(own) \o SelectSeq(<< Ref(StA), Ref(StB), Ref(StC) >>,
                           LAMBDA t : t \in {Ref(f) : f \in refs})

\* The source trees: a.css may refer to b.css and c.png, b.css to a.css and
\* c.png, i.html to a.css and b.css.
StSources ==
    {[f \in StFiles |->
        CASE f = StA -> TextWith("a", ra)
          [] f = StB -> TextWith("b", rb)
          [] f = StC -> Text("image")
          [] f = StI -> TextWith("i", ri)
          [] OTHER -> Text("notes")] :
     ra \in SUBSET {StB, StC}, rb \in SUBSET {StA, StC}, ri \in SUBSET {StA, StB}}

\* an entry of _assets_map that has no 'new_filename' yet
Unset == Path(<< >>, << >>, "")

\* the files of each loop, optimize.py:201, 277, 287, 311, 319
LoopFiles(phase) ==
    CASE phase = "fingerprints" -> StAssets
      [] phase = "pass1" -> StAssets \ StRewritables
      [] phase = "pass2" -> StAssets \cap StRewritables
      [] phase = "pass3" -> StRewritables \ StAssets
      [] phase = "pass4" -> (StFiles \ StAssets) \ StRewritables
      [] OTHER -> {}

PhaseAfter(phase) ==
    CASE phase = "fingerprints" -> "pass1"
      [] phase = "pass1" -> "pass2"
      [] phase = "pass2" -> "pass3"
      [] phase = "pass3" -> "pass4"
      [] OTHER -> "done"

RECURSIVE Enter(_)
\* the next loop that has a file to handle
Enter(phase) ==
    IF phase = "done" \/ LoopFiles(phase) # {} THEN phase ELSE Enter(PhaseAfter(phase))

\* the loop goes on with the files left, or the next loop begins
Proceed(left) ==
    IF left # {}
    THEN st_phase' = st_phase /\ st_todo' = left
    ELSE /\ st_phase' = Enter(PhaseAfter(st_phase))
         /\ st_todo' = LoopFiles(Enter(PhaseAfter(st_phase)))

\* optimize.py:185-186: the state after _index_source_dir
InitStage ==
    /\ st_source \in StSources
    /\ assets_map = [a \in StAssets |-> [basename |-> basename(a), new_filename |-> Unset]]
    /\ st_output = {}
    /\ st_phase = "fingerprints"
    /\ st_todo = StAssets
    /\ st_log = [writes |-> [a \in StAssets |-> 0], rewrites |-> 0, changed |-> FALSE]

\* optimize.py:201-203, one asset of _calculate_fingerprints
CalculateFingerprint ==
    /\ st_phase = "fingerprints"
    /\ \E fname \in st_todo :
        /\ assets_map' = [assets_map EXCEPT ![fname].new_filename =
                            convert_filename(fname, calculate_fingerprint(st_source[fname]))]
        /\ st_log' = [st_log EXCEPT !.writes[fname] = @ + 1]
        /\ Proceed(st_todo \ {fname})
    /\ UNCHANGED << st_source, st_output >>
    /\ UNCHANGED << syncVars, rwVars, ixVars >>

\* optimize.py:277-284, pass (1): an asset that is not rewritable
WriteAsset ==
    /\ st_phase = "pass1"
    /\ \E src_filename \in st_todo :
        /\ st_output' = WriteAll(st_output,
                                 {[path |-> assets_map[src_filename].new_filename,
                                   bytes |-> st_source[src_filename]]})
        /\ Proceed(st_todo \ {src_filename})
    /\ UNCHANGED << st_source, assets_map, st_log >>
    /\ UNCHANGED << syncVars, rwVars, ixVars >>

\* _rewrite_file(src, dst) for a file of the root; Optimizer._domains is empty
rewrite_file(text, map) == RewriteLine(text, DOMAIN map, map, << >>, {})

\* optimize.py:287-308, pass (2): an asset that is rewritable
RewriteAssetFile ==
    /\ st_phase = "pass2"
    /\ \E src_filename \in st_todo :
        LET rewritten == rewrite_file(st_source[src_filename], assets_map)
            dst_filename == convert_filename(src_filename, calculate_fingerprint(rewritten))
        IN  /\ assets_map' = [assets_map EXCEPT ![src_filename].new_filename = dst_filename]
            /\ st_output' = WriteAll(st_output, {[path |-> dst_filename, bytes |-> rewritten]})
            /\ st_log' = [st_log EXCEPT !.writes[src_filename] = @ + 1,
                                        !.rewrites = @ + 1,
                                        !.changed = assets_map' # assets_map]
            /\ Proceed(st_todo \ {src_filename})
    /\ UNCHANGED st_source
    /\ UNCHANGED << syncVars, rwVars, ixVars >>

\* optimize.py:311-316, pass (3): a rewritable that is no asset
RewriteFile ==
    /\ st_phase = "pass3"
    /\ \E src_filename \in st_todo :
        /\ st_output' = WriteAll(st_output,
                                 {[path |-> src_filename,
                                   bytes |-> rewrite_file(st_source[src_filename], assets_map)]})
        /\ st_log' = [st_log EXCEPT !.rewrites = @ + 1]
        /\ Proceed(st_todo \ {src_filename})
    /\ UNCHANGED << st_source, assets_map >>
    /\ UNCHANGED << syncVars, rwVars, ixVars >>

\* optimize.py:319-324, pass (4): any other file
CopyFile ==
    /\ st_phase = "pass4"
    /\ \E src_filename \in st_todo :
        /\ st_output' = WriteAll(st_output,
                                 {[path |-> src_filename, bytes |-> st_source[src_filename]]})
        /\ Proceed(st_todo \ {src_filename})
    /\ UNCHANGED << st_source, assets_map, st_log >>
    /\ UNCHANGED << syncVars, rwVars, ixVars >>

NextStage ==
    \/ CalculateFingerprint
    \/ WriteAsset
    \/ RewriteAssetFile
    \/ RewriteFile
    \/ CopyFile

(***************************************************************************)
(* Claims on the staging writer.                                           *)
(***************************************************************************)
\* C8: the new_filename of an asset is assigned once and never again, and
\* _assets_map is as it was when the first file was rewritten.
C8_WriteOnce ==
    /\ \A a \in StAssets : st_log.writes[a] <= 1
    /\ st_phase \notin {"fingerprints"} => \A a \in StAssets : st_log.writes[a] = 1
    /\ ~st_log.changed

\* the text of f holds a reference that names g
RefersTo(f, g) ==
    \E i \in DOMAIN st_source[f] :
        /\ IsCandidate(st_source[f][i], basename(g))
        /\ normalized_relative_path(<< >>, st_source[f][i]) = PathSegs(g)

\* no file that is asset and rewritable refers to itself, and no chain of
\* references among such files leads back to its start
NoCyclicReferences ==
    \A S \in SUBSET (StAssets \cap StRewritables) :
        S # {} => \E f \in S : \A g \in S : ~RefersTo(f, g)

\* the token is an addressed path, written by the rewriter
IsAddressed(token) == token.path # << >> /\ token.path[Len(token.path)].fp # NoFp

\* C10: when staging is complete and the source has no cyclic reference,
\* every asset is staged under the name made of the fingerprint of its staged
\* bytes, and every addressed path in a staged file names a staged file.
C10_StagedNamesExist ==
    (st_phase = "done" /\ NoCyclicReferences) =>
        /\ \A a \in StAssets : \E e \in st_output :
              /\ e.path = assets_map[a].new_filename
              /\ e.path = convert_filename(a, calculate_fingerprint(e.bytes))
        /\ \A e \in st_output : \A i \in DOMAIN e.bytes :
              IsAddressed(e.bytes[i]) =>
                  \E t \in st_output :
                      PathSegs(t.path) = normalized_relative_path(<< >>, e.bytes[i])

(***************************************************************************)
(* The path classifier: _index_source_dir.                                 *)
(*                                                                         *)
(* Here a relative path is the sequence of its parts: names, "/" and, for  *)
(* a file, its extension; a pattern is such a sequence that may hold "*".  *)
(***************************************************************************)
MaxExclude == 2

IxDirD == << "d" >>
IxDirE == << "d", "/", "e" >>
IxFileF == << "f", ".js" >>
IxFileDF == << "d", "/", "f", ".js" >>
IxFileDEG == << "d", "/", "e", "/", "g", ".txt" >>

IxRoot == << >>

RECURSIVE LastSlash(_)
\* the position of the last "/" of a path, 0 if it has none
LastSlash(p) ==
    IF p = << >> THEN 0
    ELSE IF p[Len(p)] = "/" THEN Len(p) ELSE LastSlash(SubSeq(p, 1, Len(p) - 1))

\* os.path.dirname of a relative path
dirname(p) == SubSeq(p, 1, LastSlash(p) - 1)

\* the source trees: every entry lies in the root or in a directory of the tree
IxTrees ==
    {t \in [dirs : SUBSET {IxDirD, IxDirE}, files : SUBSET {IxFileF, IxFileDF, IxFileDEG}] :
        \A p \in t.dirs \cup t.files : dirname(p) = IxRoot \/ dirname(p) \in t.dirs}

\* the patterns of --exclude
IxPatterns ==
    {<< "d" >>, << "d", "*" >>, << "d", "/", "*" >>, << "d", "/", "e" >>,
     << "*", ".js" >>, << "f", ".js" >>, << "*", "g", "*" >>}

RECURSIVE fnmatch(_, _)
\* fnmatch.fnmatch(name, pat): "*" matches any run of the name, "/" included
fnmatch(name, pat) ==
    IF pat = << >> THEN name = << >>
    ELSE IF Head(pat) = "*"
         THEN fnmatch(name, Tail(pat)) \/ (name # << >> /\ fnmatch(Tail(name), pat))
         ELSE name # << >> /\ Head(name) = Head(pat) /\ fnmatch(Tail(name), Tail(pat))

\* optimize.py:168, 177: True in [fnmatch(relpath, exclude) for exclude in self._exclude]
IsExcluded(relpath, patterns) == \E pat \in patterns : fnmatch(relpath, pat)

\* os.path.splitext(f)[1]
IxExt(p) == IF p # << >> /\ p[Len(p)] \in {".js", ".txt"} THEN p[Len(p)] ELSE ""

\* os.walk: dirnames and fnames of the directory dirpath
dirnames(tree, dirpath) == {d \in tree.dirs : dirname(d) = dirpath}

fnames(tree, dirpath) == {f \in tree.files : dirname(f) = dirpath}

\* os.walk goes down into every directory of dirnames: the loop of line 165
\* leaves the list as os.walk gave it
WalkInto(tree, dirpath) == dirnames(tree, dirpath)

InitIndex ==
    /\ ix_tree \in IxTrees
    /\ exclude \in {e \in SUBSET IxPatterns : Cardinality(e) <= MaxExclude}
    /\ ix_walk = {IxRoot}
    /\ subdirs = {}
    /\ files = {}
    /\ ix_assets = {}
    /\ rewritables = {}

\* optimize.py:163-190, one directory yielded by os.walk
IndexDir ==
    /\ \E dirpath \in ix_walk :
        LET kept == {f \in fnames(ix_tree, dirpath) : ~IsExcluded(f, exclude)}
        IN  /\ subdirs' = subdirs \cup
                            {d \in dirnames(ix_tree, dirpath) : ~IsExcluded(d, exclude)}
            /\ files' = files \cup kept
            /\ ix_assets' = ix_assets \cup {f \in kept : IxExt(f) \in assets_ext}
            /\ rewritables' = rewritables \cup {f \in kept : IxExt(f) \in rewriteables_ext}
            /\ ix_walk' = (ix_walk \ {dirpath}) \cup WalkInto(ix_tree, dirpath)
    /\ UNCHANGED << ix_tree, exclude >>
    /\ UNCHANGED << syncVars, rwVars, stVars >>

NextIndex == IndexDir

(***************************************************************************)
(* Claims on the path classifier.                                          *)
(***************************************************************************)
RECURSIVE Ancestors(_)
\* the directories above a relative path, the root left out
Ancestors(p) ==
    IF dirname(p) = IxRoot THEN {} ELSE {dirname(p)} \cup Ancestors(dirname(p))

\* C9: no indexed directory or file matches a pattern or lies beneath a
\* directory that matches one, and the parent directory of every indexed
\* entry is the root or an indexed directory.
C9_ExcludedSubtreePruned ==
    \A p \in subdirs \cup files :
        /\ ~IsExcluded(p, exclude)
        /\ \A a \in Ancestors(p) : ~IsExcluded(a, exclude)
        /\ dirname(p) = IxRoot \/ dirname(p) \in subdirs

\* the part of C9 that the loops of lines 165-180 do establish
IndexedMatchNoPattern == \A p \in subdirs \cup files : ~IsExcluded(p, exclude)

(***************************************************************************)
(* The parts a specification does not run stay as they are.                *)
(***************************************************************************)
SyncIdle ==
    /\ source = << >> /\ output_dir = {} /\ output_dir_is_temp = TRUE
    /\ prefix = NoPrefix /\ gzip = FALSE /\ remote = {} /\ pc = "idle"
    /\ walk = {} /\ to_be_deleted = {} /\ runs = 0 /\ hist = << >>

RewriteIdle ==
    /\ rw_src = << >> /\ rw_line = << >> /\ rw_todo = {} /\ rw_reldir = << >>
    /\ rw_domains = {} /\ rw_out = << >>

StageIdle ==
    /\ st_source = << >> /\ assets_map = << >> /\ st_output = {}
    /\ st_phase = "idle" /\ st_todo = {} /\ st_log = << >>

IndexIdle ==
    /\ ix_tree = << >> /\ exclude = {} /\ ix_walk = {}
    /\ subdirs = {} /\ files = {} /\ ix_assets = {} /\ rewritables = {}

Init == InitSync /\ RewriteIdle /\ StageIdle /\ IndexIdle

Next == NextSync

Spec == Init /\ [][Next]_vars

InitRw == InitRewrite /\ SyncIdle /\ StageIdle /\ IndexIdle

SpecRewrite == InitRw /\ [][NextRewrite]_vars

InitSt == InitStage /\ SyncIdle /\ RewriteIdle /\ IndexIdle

SpecStage == InitSt /\ [][NextStage]_vars

InitIx == InitIndex /\ SyncIdle /\ RewriteIdle /\ StageIdle

SpecIndex == InitIx /\ [][NextIndex]_vars

====
